---- MODULE Spec2Model ----
(***************************************************************************)
(* Model of src/app.py, the Streamlit scatter plot script.                 *)
(*                                                                         *)
(* Streamlit runs the script top to bottom on every input event.  One run  *)
(* (a "render cycle") is modelled as the chain of actions                  *)
(*   Upload -> Load -> Classify -> ChooseAxes -> ChooseEncodings           *)
(*          -> TitleAndAxes -> HoverData -> Render,                        *)
(* each one a block of the script, with the values the widgets of that     *)
(* block return drawn by \E.  st.stop() ends the run (pc = "stopped"), an  *)
(* exception that no handler catches ends it too (pc = "exception"), and   *)
(* Rerun starts the next cycle.                                            *)
(*                                                                         *)
(* A DataFrame is a sequence of columns [name, dtype, vals]; cell values   *)
(* are natural numbers (text cells are tokens), NaN is the missing value.  *)
(* Axis labels, log-scale flags, the title and the default colour are      *)
(* forwarded to plotly unchanged and are not modelled.                     *)
(***************************************************************************)
EXTENDS Integers, Sequences, FiniteSets, TLC

VARIABLES
    pc,                     \* position of the script run
    files,                  \* st.file_uploader result
    choose_file,            \* the file picked in "Choose a file"
    separator,              \* key picked in "Choose separator"
    df,                     \* the DataFrame
    columns,                \* list(df.columns[1:])
    discrete_columns,
    valid_discrete_columns,
    valid_facet_columns,
    continuous_columns,
    dimensions,
    x_axis, y_axis, z_axis,
    color_axis,
    size_choice,            \* what the "Choose size-axis" selectbox returned
    size_axis,              \* size_axis after the substitution of line 65
    max_size,
    symbol_axis,
    facet_col_axis, facet_row_axis,
    x_range, y_range, z_range,   \* <<range_min, range_max>>, <<>> while unbound
    default_columns,
    hover_data,
    warnings,               \* st.warning messages of this run
    fig                     \* <<>> or <<the plotly express call of this run>>

vars == <<pc, files, choose_file, separator, df, columns, discrete_columns,
          valid_discrete_columns, valid_facet_columns, continuous_columns,
          dimensions, x_axis, y_axis, z_axis, color_axis, size_choice,
          size_axis, max_size, symbol_axis, facet_col_axis, facet_row_axis,
          x_range, y_range, z_range, default_columns, hover_data, warnings,
          fig>>

----------------------------------------------------------------------------
(* Program constants *)

file_separator == [comma |-> ",", tab |-> "\t"]

MAX_DISCRETE_ELEMENTS == 10

FACET_LIMIT == 3

DefaultMaxSize == 5

DUMMY == "dummy_size_axis"

\* Python's None, for the selectboxes.
None == "None"

\* The missing value of a cell; data values are natural numbers.
NaN == 0 - 1

----------------------------------------------------------------------------
(* Bounds of the model *)

\* Columns of an uploaded table besides the first one.
MaxCols == 2

\* Rows of an uploaded table beyond MAX_DISCRETE_ELEMENTS.
ExtraRows == 1

NRows == MAX_DISCRETE_ELEMENTS + ExtraRows

\* Values the user types into "Max Size".
MaxSizeInputs == {DefaultMaxSize, DefaultMaxSize + 3}

----------------------------------------------------------------------------
(* pandas: the parts of DataFrame / Series the script uses *)

Range(s) == {s[i] : i \in DOMAIN s}

SetMin(S) == CHOOSE v \in S : \A w \in S : v <= w

SetMax(S) == CHOOSE v \in S : \A w \in S : v >= w

Names(d) == [i \in 1..Len(d) |-> d[i].name]

\* df[col]
Series(d, col) == d[CHOOSE i \in 1..Len(d) : d[i].name = col]

\* df[col].dtype
DType(d, col) == Series(d, col).dtype

\* df[col].nunique(): distinct values, missing values not counted
NUnique(d, col) == Cardinality(Range(Series(d, col).vals) \ {NaN})

\* df[col].min() / .max(): missing values skipped
ColMin(d, col) == SetMin(Range(Series(d, col).vals) \ {NaN})

ColMax(d, col) == SetMax(Range(Series(d, col).vals) \ {NaN})

RowCount(d) == IF Len(d) = 0 THEN 0 ELSE Len(d[1].vals)

\* df[col] = scalar: overwrite the column of that name, or append a new one
AssignScalar(d, col, v) ==
    LET new == [name |-> col, dtype |-> "int64",
                vals |-> [i \in 1..RowCount(d) |-> v]]
    IN IF col \in Range(Names(d))
       THEN [i \in 1..Len(d) |-> IF d[i].name = col THEN new ELSE d[i]]
       ELSE Append(d, new)

----------------------------------------------------------------------------
(* Uploaded files *)

\* Kinds of file column, in the order they appear in a file.
Templates == <<"count", "price", "big", "group", "city", "name", "flag", DUMMY>>

Cycle(i, k) == ((i - 1) % k) + 1

\* The dtype and values read_csv gives a file column of kind t: integers,
\* numbers of MAX_DISCRETE_ELEMENTS distinct values and an empty cell,
\* integers beyond the int64 range, text of
\* FACET_LIMIT distinct values and an empty cell, text of MAX_DISCRETE_ELEMENTS
\* and of MAX_DISCRETE_ELEMENTS + 1 distinct values, True/False, and an
\* integer column whose header is dummy_size_axis.
Body(t) ==
    CASE t = "count" -> [dtype |-> "int64",
                         vals |-> [i \in 1..NRows |-> i]]
      [] t = "price" -> [dtype |-> "float64",
                         vals |-> [i \in 1..NRows |->
                                     IF i = 1 THEN NaN
                                     ELSE Cycle(i, MAX_DISCRETE_ELEMENTS) + 1]]
      [] t = "big"   -> [dtype |-> "uint64",
                         vals |-> [i \in 1..NRows |-> i]]
      [] t = "group" -> [dtype |-> "object",
                         vals |-> [i \in 1..NRows |->
                                     IF i = NRows THEN NaN ELSE Cycle(i, FACET_LIMIT)]]
      [] t = "city"  -> [dtype |-> "object",
                         vals |-> [i \in 1..NRows |-> Cycle(i, MAX_DISCRETE_ELEMENTS)]]
      [] t = "name"  -> [dtype |-> "object",
                         vals |-> [i \in 1..NRows |-> Cycle(i, MAX_DISCRETE_ELEMENTS + 1)]]
      [] t = "flag"  -> [dtype |-> "bool",
                         vals |-> [i \in 1..NRows |-> i % 2]]
      [] t = DUMMY   -> [dtype |-> "int64",
                         vals |-> [i \in 1..NRows |-> i + 2]]

Column(name, t) == [name |-> name, dtype |-> Body(t).dtype, vals |-> Body(t).vals]

\* The columns of kinds ts, in file order
Pick(ts) ==
    LET kept == SelectSeq(Templates, LAMBDA t : t \in ts)
    IN [j \in 1..Len(kept) |-> Column(kept[j], kept[j])]

\* Tables of NRows rows: an integer first column named id and up to MaxCols
\* further columns of distinct kinds, or an integer first column named
\* dummy_size_axis and at most one further column.
FullTables ==
    {<<Column("id", "count")>> \o Pick(ts) :
        ts \in {S \in SUBSET Range(Templates) : Cardinality(S) <= MaxCols}}
    \cup
    {<<Column(DUMMY, "count")>> \o Pick(ts) :
        ts \in {S \in SUBSET (Range(Templates) \ {DUMMY}) : Cardinality(S) <= 1}}

\* A file of a header line only: every column is read as an empty object column.
HeaderOnlyTable ==
    <<[name |-> "id", dtype |-> "object", vals |-> <<>>],
      [name |-> "count", dtype |-> "object", vals |-> <<>>]>>

Tables == FullTables \cup {HeaderOnlyTable}

\* An uploaded file: delimited text written with separator sep, or bytes that
\* are no delimited text at all (empty file, undecodable bytes, ragged rows).
Files ==
    {[kind |-> "table", sep |-> "comma", table |-> t] : t \in Tables}
    \cup {[kind |-> "table", sep |-> "tab", table |-> t] :
            t \in {u \in Tables : Len(u) <= 2}}
    \cup {[kind |-> "malformed", sep |-> "comma", table |-> <<>>]}

NoFile == [kind |-> "none", sep |-> "comma", table |-> <<>>]

\* pd.read_csv(file, sep=...).  Read with the separator it was written with,
\* a file gives its table; read with the other one, every line is one cell
\* and the table has a single column.
read_csv(f, sep) ==
    IF f.kind = "malformed"
    THEN [error |-> TRUE, df |-> <<>>]
    ELSE IF file_separator[f.sep] = sep
         THEN [error |-> FALSE, df |-> f.table]
         ELSE [error |-> FALSE,
               df |-> <<[name |-> "header", dtype |-> "object",
                         vals |-> [i \in 1..RowCount(f.table) |-> i]]>>]

----------------------------------------------------------------------------
(* Streamlit widgets *)

\* st.selectbox(label, options): one of the options
Selectbox(options) == Range(options)

\* Faulty variant: no min_value.
NumberInput_NoMin(req, value, min_value, max_value) ==
    IF req = NaN THEN value
    ELSE IF req > max_value THEN max_value
    ELSE req

\* st.number_input(value=, min_value=, max_value=): the default while the
\* user typed nothing (req = NaN), else the typed number held within
\* [min_value, max_value]
NumberInput(req, value, min_value, max_value) ==
    IF req = NaN THEN value
    ELSE IF req < min_value THEN min_value
    ELSE IF req > max_value THEN max_value
    ELSE req

\* st.multiselect(label, options, default=): the user keeps the default
\* selection, clears it, or selects every option
Multiselect(options, default) == {Range(default), {}, Range(options)}

----------------------------------------------------------------------------
(* The script *)

Init ==
    /\ pc = "start"
    /\ files = <<>>
    /\ choose_file = NoFile
    /\ separator = "comma"
    /\ df = <<>>
    /\ columns = <<>>
    /\ discrete_columns = <<>>
    /\ valid_discrete_columns = <<>>
    /\ valid_facet_columns = <<>>
    /\ continuous_columns = <<>>
    /\ dimensions = 2
    /\ x_axis = None
    /\ y_axis = None
    /\ z_axis = None
    /\ color_axis = None
    /\ size_choice = None
    /\ size_axis = None
    /\ max_size = DefaultMaxSize
    /\ symbol_axis = None
    /\ facet_col_axis = None
    /\ facet_row_axis = None
    /\ x_range = <<>>
    /\ y_range = <<>>
    /\ z_range = <<>>
    /\ default_columns = <<>>
    /\ hover_data = {}
    /\ warnings = <<>>
    /\ fig = <<>>

\* lines 14-21
Upload ==
    /\ pc = "start"
    /\ \E fs \in {<<>>} \cup {<<f>> : f \in Files} :
        /\ files' = fs
        /\ IF Len(fs) = 0
           THEN /\ pc' = "stopped"
                /\ UNCHANGED <<choose_file, separator>>
           ELSE /\ \E f \in Range(fs) : choose_file' = f
                /\ \E sp \in DOMAIN file_separator : separator' = sp
                /\ pc' = "load"
    /\ UNCHANGED <<df, columns, discrete_columns, valid_discrete_columns,
                   valid_facet_columns, continuous_columns, dimensions, x_axis,
                   y_axis, z_axis, color_axis, size_choice, size_axis, max_size,
                   symbol_axis, facet_col_axis, facet_row_axis, x_range, y_range,
                   z_range, default_columns, hover_data, warnings, fig>>

\* Faulty variant: list(df.columns) keeps the first column.
ColumnsOf_All(d) == Names(d)

\* columns = list(df.columns[1:])
ColumnsOf(d) == IF Len(d) = 0 THEN <<>> ELSE Tail(Names(d))

\* Faulty variant: the test of line 27 never fires.
NoColumns_Never(cols) == Len(cols) < 0

\* len(columns) == 0, line 27
NoColumns(cols) == Len(cols) = 0

\* lines 23-30
Load ==
    /\ pc = "load"
    /\ LET r == read_csv(choose_file, file_separator[separator])
       IN IF r.error
          THEN \* the exception of read_csv is caught nowhere
               /\ pc' = "exception"
               /\ UNCHANGED <<df, columns, warnings>>
          ELSE /\ df' = r.df
               /\ columns' = ColumnsOf(r.df)
               /\ IF NoColumns(ColumnsOf(r.df))
                  THEN /\ warnings' = warnings \o
                            <<"No Columns found in the file",
                              "Please upload a valid file, or choose a different separator">>
                       /\ pc' = "stopped"
                  ELSE /\ pc' = "classify"
                       /\ UNCHANGED warnings
    /\ UNCHANGED <<files, choose_file, separator, discrete_columns,
                   valid_discrete_columns, valid_facet_columns,
                   continuous_columns, dimensions, x_axis, y_axis, z_axis,
                   color_axis, size_choice, size_axis, max_size, symbol_axis,
                   facet_col_axis, facet_row_axis, x_range, y_range, z_range,
                   default_columns, hover_data, fig>>

\* Faulty variant: integer columns are taken as categories too.
IsDiscrete_WithInt(dtype) == dtype = "object" \/ dtype = "bool" \/ dtype = "int64"

\* the dtype test of line 34
IsDiscrete(dtype) == dtype = "object" \/ dtype = "bool"

\* the dtype test of line 40
IsContinuous(dtype) == dtype \in {"int64", "float64", "int32", "float32"}

\* Faulty variant: < for <=.
WithinLimit_Strict(n, limit) == n < limit

\* nunique() <= limit, lines 35-36
WithinLimit(n, limit) == n <= limit

\* lines 34-40
Classify ==
    /\ pc = "classify"
    /\ LET dc == SelectSeq(columns, LAMBDA col : IsDiscrete(DType(df, col)))
           vdc == SelectSeq(dc, LAMBDA col :
                        WithinLimit(NUnique(df, col), MAX_DISCRETE_ELEMENTS))
           vfc == SelectSeq(vdc, LAMBDA col :
                        WithinLimit(NUnique(df, col), FACET_LIMIT))
       IN /\ discrete_columns' = dc
          /\ valid_discrete_columns' = vdc
          /\ valid_facet_columns' = vfc
    /\ continuous_columns' = SelectSeq(columns, LAMBDA col : IsContinuous(DType(df, col)))
    /\ pc' = "axes"
    /\ UNCHANGED <<files, choose_file, separator, df, columns, dimensions,
                   x_axis, y_axis, z_axis, color_axis, size_choice, size_axis,
                   max_size, symbol_axis, facet_col_axis, facet_row_axis,
                   x_range, y_range, z_range, default_columns, hover_data,
                   warnings, fig>>

\* Faulty variant: the z axis is not looked at.
AxisMissing_NoZ(dims, x, y, z) == x = None \/ y = None

\* the condition of line 51
AxisMissing(dims, x, y, z) == x = None \/ y = None \/ (dims = 3 /\ z = None)

\* lines 43-53
ChooseAxes ==
    /\ pc = "axes"
    /\ \E dims \in {2, 3} :
       \E x \in Selectbox(<<None>> \o continuous_columns) :
       \E y \in Selectbox(<<None>> \o continuous_columns) :
       \E z \in IF dims = 3 THEN Selectbox(<<None>> \o continuous_columns) ELSE {None} :
        /\ dimensions' = dims
        /\ x_axis' = x
        /\ y_axis' = y
        /\ z_axis' = z
        /\ IF AxisMissing(dims, x, y, z)
           THEN /\ warnings' = Append(warnings, "Please select x, y, and z axis")
                /\ pc' = "stopped"
           ELSE /\ pc' = "encodings"
                /\ UNCHANGED warnings
    /\ UNCHANGED <<files, choose_file, separator, df, columns, discrete_columns,
                   valid_discrete_columns, valid_facet_columns,
                   continuous_columns, color_axis, size_choice, size_axis,
                   max_size, symbol_axis, facet_col_axis, facet_row_axis,
                   x_range, y_range, z_range, default_columns, hover_data, fig>>

\* Faulty variant: the constant of the number input's default, not its value.
DummySizeValue_Default(ms) == DefaultMaxSize

\* df['dummy_size_axis'] = max_size
DummySizeValue(ms) == ms

\* lines 55-73
ChooseEncodings ==
    /\ pc = "encodings"
    /\ \E color \in Selectbox(<<None>> \o valid_discrete_columns) :
       \E size \in Selectbox(<<None>> \o continuous_columns) :
       \E ms \in MaxSizeInputs :
       \E symbol \in Selectbox(<<None>> \o valid_discrete_columns) :
        /\ color_axis' = color
        /\ size_choice' = size
        /\ max_size' = ms
        /\ IF size = None
           THEN /\ df' = AssignScalar(df, DUMMY, DummySizeValue(ms))
                /\ size_axis' = DUMMY
           ELSE /\ size_axis' = size
                /\ UNCHANGED df
        /\ symbol_axis' = symbol
    /\ IF dimensions = 2
       THEN /\ \E fc \in Selectbox(<<None>> \o valid_facet_columns) : facet_col_axis' = fc
            /\ \E fr \in Selectbox(<<None>> \o valid_facet_columns) : facet_row_axis' = fr
       ELSE /\ facet_col_axis' = None
            /\ facet_row_axis' = None
    /\ pc' = "title_axes"
    /\ UNCHANGED <<files, choose_file, separator, columns, discrete_columns,
                   valid_discrete_columns, valid_facet_columns,
                   continuous_columns, dimensions, x_axis, y_axis, z_axis,
                   x_range, y_range, z_range, default_columns, hover_data,
                   warnings, fig>>

\* What the user types into a range field of the column col: nothing, a number
\* below the column's minimum or a number above its maximum.
RangeRequests(d, col) == {NaN, ColMin(d, col) - 1, ColMax(d, col) + 1}

\* The "Range Min" and "Range Max" number inputs of one axis (lines 81-85)
RangeMinInput(req, lo, hi) == NumberInput(req, lo, lo, hi)

RangeMaxInput(req, lo, hi) == NumberInput(req, hi, lo, hi)

AxisRanges(d, col) ==
    { <<RangeMinInput(r1, ColMin(d, col), ColMax(d, col)),
        RangeMaxInput(r2, ColMin(d, col), ColMax(d, col))>> :
        r1 \in RangeRequests(d, col), r2 \in RangeRequests(d, col) }

\* lines 75-104
TitleAndAxes ==
    /\ pc = "title_axes"
    /\ x_range' \in AxisRanges(df, x_axis)
    /\ y_range' \in AxisRanges(df, y_axis)
    /\ IF dimensions = 3
       THEN z_range' \in AxisRanges(df, z_axis)
       ELSE UNCHANGED z_range
    /\ pc' = "hover"
    /\ UNCHANGED <<files, choose_file, separator, df, columns, discrete_columns,
                   valid_discrete_columns, valid_facet_columns,
                   continuous_columns, dimensions, x_axis, y_axis, z_axis,
                   color_axis, size_choice, size_axis, max_size, symbol_axis,
                   facet_col_axis, facet_row_axis, default_columns, hover_data,
                   warnings, fig>>

\* the condition of line 110
SizeIsReal(size) == size # None /\ size # DUMMY

AppendIf(list, cond, col) == IF cond THEN Append(list, col) ELSE list

\* lines 107-123
DefaultColumns(color, size, x, y, z, symbol, fcol, frow) ==
    LET l1 == AppendIf(<<>>, color # None, color)
        l2 == AppendIf(l1, SizeIsReal(size), size)
        l3 == AppendIf(l2, x # None, x)
        l4 == AppendIf(l3, y # None, y)
        l5 == AppendIf(l4, z # None, z)
        l6 == AppendIf(l5, symbol # None, symbol)
        l7 == AppendIf(l6, fcol # None, fcol)
    IN AppendIf(l7, frow # None, frow)

\* lines 106-124
HoverData ==
    /\ pc = "hover"
    /\ default_columns' = DefaultColumns(color_axis, size_axis, x_axis, y_axis,
                                         z_axis, symbol_axis, facet_col_axis,
                                         facet_row_axis)
    /\ hover_data' \in Multiselect(columns, default_columns')
    /\ pc' = "render"
    /\ UNCHANGED <<files, choose_file, separator, df, columns, discrete_columns,
                   valid_discrete_columns, valid_facet_columns,
                   continuous_columns, dimensions, x_axis, y_axis, z_axis,
                   color_axis, size_choice, size_axis, max_size, symbol_axis,
                   facet_col_axis, facet_row_axis, x_range, y_range, z_range,
                   warnings, fig>>

\* px.scatter_3d(df, ...), lines 133-148
Scatter3d ==
    [fn |-> "scatter_3d", x |-> x_axis, y |-> y_axis, z |-> z_axis,
     range_x |-> x_range, range_y |-> y_range, range_z |-> z_range,
     color |-> color_axis, size |-> size_axis, size_max |-> max_size,
     symbol |-> symbol_axis, facet_col |-> None, facet_row |-> None,
     hover_data |-> hover_data]

\* px.scatter(df, ...), lines 158-172
Scatter2d ==
    [fn |-> "scatter", x |-> x_axis, y |-> y_axis, z |-> None,
     range_x |-> x_range, range_y |-> y_range, range_z |-> <<>>,
     color |-> color_axis, size |-> size_axis, size_max |-> max_size,
     symbol |-> symbol_axis, facet_col |-> facet_col_axis,
     facet_row |-> facet_row_axis, hover_data |-> hover_data]

\* lines 127-185
Render ==
    /\ pc = "render"
    /\ IF dimensions = 3
       THEN IF x_axis = None \/ y_axis = None \/ z_axis = None
            THEN /\ warnings' = Append(warnings, "Please select x, y, and z axis")
                 /\ pc' = "stopped"
                 /\ UNCHANGED fig
            ELSE /\ fig' = <<Scatter3d>>
                 /\ pc' = "done"
                 /\ UNCHANGED warnings
       ELSE IF x_axis = None \/ y_axis = None
            THEN /\ warnings' = Append(warnings, "Please select x and y axis")
                 /\ pc' = "stopped"
                 /\ UNCHANGED fig
            ELSE /\ fig' = <<Scatter2d>>
                 /\ pc' = "done"
                 /\ UNCHANGED warnings
    /\ UNCHANGED <<files, choose_file, separator, df, columns, discrete_columns,
                   valid_discrete_columns, valid_facet_columns,
                   continuous_columns, dimensions, x_axis, y_axis, z_axis,
                   color_axis, size_choice, size_axis, max_size, symbol_axis,
                   facet_col_axis, facet_row_axis, x_range, y_range, z_range,
                   default_columns, hover_data>>

\* An input event: Streamlit runs the script again from the top.  The
\* session survives a stopped run and a run ended by an exception.
Rerun ==
    /\ pc \in {"done", "stopped", "exception"}
    /\ pc' = "start"
    /\ files' = <<>>
    /\ choose_file' = NoFile
    /\ separator' = "comma"
    /\ df' = <<>>
    /\ columns' = <<>>
    /\ discrete_columns' = <<>>
    /\ valid_discrete_columns' = <<>>
    /\ valid_facet_columns' = <<>>
    /\ continuous_columns' = <<>>
    /\ dimensions' = 2
    /\ x_axis' = None
    /\ y_axis' = None
    /\ z_axis' = None
    /\ color_axis' = None
    /\ size_choice' = None
    /\ size_axis' = None
    /\ max_size' = DefaultMaxSize
    /\ symbol_axis' = None
    /\ facet_col_axis' = None
    /\ facet_row_axis' = None
    /\ x_range' = <<>>
    /\ y_range' = <<>>
    /\ z_range' = <<>>
    /\ default_columns' = <<>>
    /\ hover_data' = {}
    /\ warnings' = <<>>
    /\ fig' = <<>>

Next ==
    \/ Upload
    \/ Load
    \/ Classify
    \/ ChooseAxes
    \/ ChooseEncodings
    \/ TitleAndAxes
    \/ HoverData
    \/ Render
    \/ Rerun

Spec == Init /\ [][Next]_vars

----------------------------------------------------------------------------
(* Properties *)

\* Positions of a run that has passed the axis validation of line 51.
PastAxes == {"encodings", "title_axes", "hover", "render", "done"}

\* Positions of a run that has passed the encodings block.
PastEncodings == {"title_axes", "hover", "render", "done"}

AxisWarning == "Please select x, y, and z axis"

NoColumnsWarnings ==
    <<"No Columns found in the file",
      "Please upload a valid file, or choose a different separator">>

\* The table read_csv made of the chosen file in this run.
Loaded == read_csv(choose_file, file_separator[separator]).df

\* The name of the first column of the DataFrame.
Identifier == df[1].name

\* Declared types of the data model: numeric (integer or floating point),
\* and textual or boolean.
NumericDTypes == {"int64", "int32", "uint64", "float64", "float32"}

TextOrBoolDTypes == {"object", "bool"}

\* C1: after classification no column is both continuous and discrete, the
\* selectable-discrete columns are discrete columns, and the facet-eligible
\* columns are selectable-discrete columns.
C1_Partition ==
    /\ Range(continuous_columns) \cap Range(discrete_columns) = {}
    /\ Range(valid_discrete_columns) \subseteq Range(discrete_columns)
    /\ Range(valid_facet_columns) \subseteq Range(valid_discrete_columns)

C1_Witness ==
    /\ pc = "axes"
    /\ continuous_columns # <<>>
    /\ valid_facet_columns # <<>>

\* The renderer is called only with x and y non-null continuous columns, z a
\* non-null continuous column in 3D and absent in 2D.
C2_AxesValid ==
    /\ pc \in PastAxes =>
        /\ x_axis \in Range(continuous_columns)
        /\ y_axis \in Range(continuous_columns)
        /\ dimensions = 3 => z_axis \in Range(continuous_columns)
        /\ dimensions = 2 => z_axis = None
    /\ fig # <<>> =>
        /\ pc = "done"
        /\ fig[1].x = x_axis /\ fig[1].y = y_axis /\ fig[1].z = z_axis
        /\ fig[1].x # None /\ fig[1].y # None
        /\ fig[1].fn = (IF dimensions = 3 THEN "scatter_3d" ELSE "scatter")
        /\ fig[1].fn = "scatter_3d" => fig[1].z # None
        /\ fig[1].fn = "scatter" => fig[1].z = None

\* The step that validates the axes: 3D without z warns and stops the run
\* with no renderer call; 2D with x and y goes on without a warning.
C2_ValidationStep ==
    pc = "axes" =>
        /\ (dimensions' = 3 /\ z_axis' = None) =>
                /\ pc' = "stopped"
                /\ warnings' = Append(warnings, AxisWarning)
                /\ fig' = <<>>
        /\ (dimensions' = 2 /\ x_axis' # None /\ y_axis' # None) =>
                /\ pc' = "encodings"
                /\ z_axis' = None
                /\ warnings' = warnings

\* A run that reaches the render block calls the renderer: the second
\* validation never fails.
C2_RenderStep == pc = "render" => (pc' = "done" /\ fig' # <<>> /\ warnings' = warnings)

\* C2: in every run, a 3D request with z null fails validation (warning, no
\* renderer call), a 2D request with x and y and without z passes it and is
\* rendered, and the renderer is called only with valid axes.
C2_Validation == [](C2_AxesValid) /\ [][C2_ValidationStep /\ C2_RenderStep]_vars

C2_Witness ==
    /\ pc = "stopped"
    /\ dimensions = 3
    /\ x_axis # None /\ y_axis # None /\ z_axis = None
    /\ warnings = <<AxisWarning>>
    /\ fig = <<>>

\* C3: a loaded table of the identifier column alone ends the run at the
\* no-columns check: the two warnings are shown, and nothing is classified,
\* selected or plotted.
C3_NoColumnsHalts ==
    Len(df) = 1 =>
        /\ pc = "stopped"
        /\ warnings = NoColumnsWarnings
        /\ columns = <<>>
        /\ discrete_columns = <<>> /\ valid_discrete_columns = <<>>
        /\ valid_facet_columns = <<>> /\ continuous_columns = <<>>
        /\ x_axis = None /\ y_axis = None /\ z_axis = None
        /\ color_axis = None /\ size_axis = None /\ symbol_axis = None
        /\ facet_col_axis = None /\ facet_row_axis = None
        /\ hover_data = {} /\ fig = <<>>

C3_Witness ==
    /\ Len(df) = 1
    /\ Len(choose_file.table) = 1
    /\ pc = "stopped"
    /\ warnings = NoColumnsWarnings

\* C4: a file that cannot be parsed ends the run with a warning shown
\* (stopped, not ended by an exception) and without a plot.
C4_LoadErrorWarned ==
    (choose_file.kind = "malformed" /\ pc \notin {"start", "load"}) =>
        /\ pc = "stopped"
        /\ warnings # <<>>
        /\ fig = <<>>

\* C5 as stated: a numeric column of exactly MAX_DISCRETE_ELEMENTS distinct
\* values is selectable-discrete, one of MAX_DISCRETE_ELEMENTS + 1 is not.
C5_NumericSelectable ==
    pc = "axes" =>
        \A col \in Range(columns) :
            DType(df, col) \in NumericDTypes =>
                /\ NUnique(df, col) = MAX_DISCRETE_ELEMENTS =>
                        col \in Range(valid_discrete_columns)
                /\ NUnique(df, col) = MAX_DISCRETE_ELEMENTS + 1 =>
                        col \notin Range(valid_discrete_columns)

\* C5 (amended): a textual or boolean column of exactly MAX_DISCRETE_ELEMENTS
\* distinct values is selectable-discrete, one of MAX_DISCRETE_ELEMENTS + 1 is
\* not, and a numeric column is never selectable-discrete.
C5_DiscreteSelectable ==
    pc = "axes" =>
        \A col \in Range(columns) :
            /\ (DType(df, col) \in TextOrBoolDTypes
                    /\ NUnique(df, col) = MAX_DISCRETE_ELEMENTS)
                 => col \in Range(valid_discrete_columns)
            /\ NUnique(df, col) = MAX_DISCRETE_ELEMENTS + 1
                 => col \notin Range(valid_discrete_columns)
            /\ DType(df, col) \in NumericDTypes
                 => col \notin Range(valid_discrete_columns)

C5_Witness ==
    /\ pc = "axes"
    /\ \E col \in Range(valid_discrete_columns) :
            NUnique(df, col) = MAX_DISCRETE_ELEMENTS
    /\ \E col \in Range(discrete_columns) :
            NUnique(df, col) = MAX_DISCRETE_ELEMENTS + 1
    /\ ExtraRows >= 1

\* Both bounds of the range r lie within the observed values of column col.
InColumnRange(r, col) ==
    LET lo == ColMin(df, col)
        hi == ColMax(df, col)
    IN /\ Len(r) = 2
       /\ lo <= r[1] /\ r[1] <= hi
       /\ lo <= r[2] /\ r[2] <= hi

\* Left alone, the range fields of column col hold its observed minimum and
\* maximum.
DefaultIsObserved(col) ==
    LET lo == ColMin(df, col)
        hi == ColMax(df, col)
    IN /\ RangeMinInput(NaN, lo, hi) = lo
       /\ RangeMaxInput(NaN, lo, hi) = hi

\* C6: the range fields of an axis default to the observed minimum and
\* maximum of its column, and every bound of the ranges set in the run and
\* passed to the renderer lies between the two.
C6_RangesWithinObserved ==
    /\ pc = "title_axes" =>
        /\ DefaultIsObserved(x_axis)
        /\ DefaultIsObserved(y_axis)
        /\ dimensions = 3 => DefaultIsObserved(z_axis)
    /\ pc \in {"hover", "render", "done"} =>
        /\ InColumnRange(x_range, x_axis)
        /\ InColumnRange(y_range, y_axis)
        /\ dimensions = 3 => InColumnRange(z_range, z_axis)
    /\ fig # <<>> =>
        /\ fig[1].x = x_axis /\ fig[1].range_x = x_range
        /\ fig[1].y = y_axis /\ fig[1].range_y = y_range
        /\ fig[1].fn = "scatter_3d" => (fig[1].z = z_axis /\ fig[1].range_z = z_range)

C6_Witness ==
    /\ fig # <<>>
    /\ fig[1].fn = "scatter_3d"
    /\ ColMin(df, x_axis) < ColMax(df, x_axis)
    /\ fig[1].range_x = <<ColMax(df, x_axis), ColMax(df, x_axis)>>
    /\ fig[1].range_z = <<ColMin(df, z_axis), ColMax(df, z_axis)>>

\* C7: with no size axis chosen the size encoding is the column
\* dummy_size_axis, whose value is max_size on every row; with a size axis
\* chosen the size encoding is that column and the table is left as loaded.
C7_SyntheticSize ==
    pc \in PastEncodings =>
        /\ size_choice = None =>
            /\ size_axis = DUMMY
            /\ DUMMY \in Range(Names(df))
            /\ Len(Series(df, DUMMY).vals) = RowCount(Loaded)
            /\ \A i \in 1..RowCount(Loaded) : Series(df, DUMMY).vals[i] = max_size
        /\ size_choice # None =>
            /\ size_axis = size_choice
            /\ df = Loaded
        /\ fig # <<>> => (fig[1].size = size_axis /\ fig[1].size_max = max_size)

C7_Witness ==
    /\ pc = "done"
    /\ size_choice = None
    /\ max_size = DefaultMaxSize + 3
    /\ fig[1].size = DUMMY
    /\ \A i \in 1..NRows : Series(df, DUMMY).vals[i] = DefaultMaxSize + 3

\* C8: the default hover-data set is the selected colour, symbol and facet
\* columns, the size column exactly when the user chose one, and the
\* selected axes, and nothing else.
C8_HoverDefault ==
    pc \in {"render", "done"} =>
        Range(default_columns) =
            ({color_axis, symbol_axis, facet_col_axis, facet_row_axis,
              x_axis, y_axis, z_axis} \ {None})
            \cup (IF size_choice # None THEN {size_choice} ELSE {})

\* C9: a column is continuous exactly when its type is numeric and discrete
\* exactly when its type is textual or boolean.
C9_TypeDecidesClass ==
    pc = "axes" =>
        \A col \in Range(columns) :
            /\ col \in Range(continuous_columns) <=> DType(df, col) \in NumericDTypes
            /\ col \in Range(discrete_columns) <=> DType(df, col) \in TextOrBoolDTypes

\* C10: the first column of the loaded table is in none of the column
\* lists, is offered by no selectbox and by the hover multiselect neither,
\* and is no selected axis, encoding or hover column.
C10_IdentifierExcluded ==
    (Len(df) >= 1 /\ pc \notin {"start", "load"}) =>
        /\ Identifier = Loaded[1].name
        /\ Identifier \notin
                Range(columns) \cup Range(continuous_columns)
                \cup Range(discrete_columns) \cup Range(valid_discrete_columns)
                \cup Range(valid_facet_columns)
        /\ Identifier \notin
                {x_axis, y_axis, z_axis, color_axis, size_choice, symbol_axis,
                 facet_col_axis, facet_row_axis}
        /\ Identifier \notin Range(default_columns)
        /\ Identifier \notin hover_data

C10_Witness ==
    /\ pc = "done"
    /\ color_axis # None
    /\ size_choice # None
    /\ facet_col_axis # None
    /\ hover_data = Range(columns)

====
